---- MODULE Spec2Model ----
(***************************************************************************)
(* The changesReader of nodejs-cloudant: a long-poll loop over a database's *)
(* _changes feed that publishes change / batch / seq / error / end events.  *)
(*                                                                         *)
(* The repository holds two renditions of the ChangesReader class:         *)
(*   - src/unnamed/part_000      (stop(), get(), the `continue` flag)      *)
(*   - src/lib/changesreader.js  (maxChanges / numChanges, no stop/get)    *)
(* Both are modelled.  `self` is the instance; it is a record whose fields  *)
(* are the fields that rendition's setDefaults() assigns.  Definitions that *)
(* model src/lib/changesreader.js carry the suffix Lib.                    *)
(*                                                                         *)
(* JavaScript is single threaded: start(), get(), stop() and the callback   *)
(* of an HTTP exchange each run to completion, so each is one action.  The  *)
(* only code that runs inside the callback besides the loop itself is the   *)
(* subscribers, called synchronously by emit(); a subscriber's re-entrant   *)
(* call of stop()/get()/start() is the `hook` input of the callback.        *)
(* async.doWhilst (async 2.x) runs the iteratee first and, on next(), runs  *)
(* the test synchronously and either runs the iteratee again or the final   *)
(* callback; next(err) with a truthy err runs the final callback at once.   *)
(***************************************************************************)
EXTENDS Integers, Sequences, FiniteSets, TLC

VARIABLES
  self,      \* the ChangesReader instance (its fields)
  inflight,  \* requests handed to the transport whose callback has not run
  events,    \* events published by the most recent operation, in order
  lastOp,    \* the most recent operation, and whether the loop was running
  lastOpts,  \* the opts of the most recent start()/get()
  stopped,   \* where stop() was last called since the last reset
  lastResp,  \* what that callback was given (err, data)
  lastHook,  \* what a subscriber did during that callback
  ret,       \* event emitter returned by the most recent start()/get()
  listening, \* the current emitter has an 'error' listener
  thrown,    \* the most recent callback ended by throwing
  delivered, \* `change` events published in the current run (lib rendition)
  begun,     \* the call that began the current run: "start", "get" or "none"
  ord        \* what the most recent callback did, in order: the kinds of the
             \* events it emitted and how it left the loop body

vars == <<self, inflight, events, lastOp, lastOpts, stopped, lastResp, lastHook, ret, listening,
          thrown, delivered, begun, ord>>

----------------------------------------------------------------------------
(* Bounds *)

MaxResults == 2      \* longest result list a response carries
MaxEmitters == 2     \* emitters created after the first one (resets)
MaxNumChanges == 3   \* cap of the numChanges counter (lib rendition)

----------------------------------------------------------------------------
(* JavaScript values *)

Undefined == "undefined"   \* a since / last_seq / reason that is absent
NumZero == "0 (number)"    \* the number 0 passed as `since`
FalsyTokens == {Undefined, NumZero, ""}

Truthy(v) == v \notin FalsyTokens

Has(o, k) == k \in DOMAIN o

\* a truthy value that is not a number, such as 'abc', passed where a number
\* is expected; arithmetic on it gives NaN, for which the same token stands.
\* Every `<` comparison with it is false and Math.min with it is NaN, which
\* is what the model's `<` and Min make of -1 against the counts 0, 1, ...
NonNumeric == -1

DefaultBatchSize == 100
DefaultTimeout == 60000
DefaultHeartbeat == 5000

----------------------------------------------------------------------------
(* Inputs *)

ChangeIds == {"a", "b"}

ResultLists == UNION {[1..n -> ChangeIds] : n \in 0..MaxResults}

SeqTokens == {"1-0", "2-0"}

StatusCodes == {400, 429, 499, 500}

\* data of a successful exchange: `results` and `last_seq` are optional
DataSet ==
  {[results |-> r, last_seq |-> s] : r \in ResultLists, s \in SeqTokens}
    \cup {[results |-> r] : r \in ResultLists}
    \cup {[last_seq |-> s] : s \in SeqTokens}
    \cup {[pending |-> 0]}

\* err of a failed exchange: statusCode and reason are optional
ErrSet ==
  {[statusCode |-> c, reason |-> "reason"] : c \in StatusCodes}
    \cup {[statusCode |-> c] : c \in StatusCodes}
    \cup {[message |-> "socket hang up"]}

\* (err, data) as handed to the request callback
Responses ==
  {[data |-> d] : d \in DataSet}
    \cup {[err |-> e] : e \in ErrSet}
    \cup {[none |-> TRUE]}

OptBatchSizes == {1}
OptSinces == {"1-0", NumZero}
OptMaxChanges == {3}

Field(k, present, v) == IF present THEN k :> v ELSE <<>>

\* opts of start() / get(): every subset of the options
OptsSet ==
  {Field("batchSize", pb, b) @@ Field("since", ps, s)
     @@ Field("include_docs", pi, TRUE) @@ Field("maxChanges", pm, m) :
     pb \in BOOLEAN, b \in OptBatchSizes,
     ps \in BOOLEAN, s \in OptSinces,
     pi \in BOOLEAN,
     pm \in BOOLEAN, m \in OptMaxChanges}

\* opts that give batchSize or maxChanges a value of a non-numeric type
InvalidOptsSet == {"batchSize" :> NonNumeric, "maxChanges" :> NonNumeric}

\* opts of start()
StartOptsSet == OptsSet \cup InvalidOptsSet

\* opts of a start()/get() on a running instance, which returns before it
\* reads them: no option, the documented options, every option
RunningOptsSet ==
  {o \in OptsSet :
     \/ DOMAIN o = {}
     \/ /\ DOMAIN o \in {{"batchSize", "since"},
                         {"batchSize", "since", "include_docs", "maxChanges"}}
        /\ o.since = "1-0"}

\* opts of get(): the options its comment documents
GetOptsSet == {o \in OptsSet : DOMAIN o \subseteq {"batchSize", "since"}}

EventKinds == {"change", "batch", "seq", "error", "end"}
Calls == {"stop", "get", "start"}

NoHook == [on |-> "none", call |-> "none"]

\* a subscriber of event kind `on` that calls `call` when it is notified
AllHooks ==
  {NoHook}
    \cup {[on |-> k, call |-> "stop"] : k \in EventKinds \ {"batch"}}
    \cup {[on |-> "change", call |-> "get"], [on |-> "batch", call |-> "start"]}

----------------------------------------------------------------------------
(* src/unnamed/part_000 *)

\* setDefaults(): `e` identifies the new EventEmitter
setDefaults(e) ==
  [ee |-> e,
   batchSize |-> DefaultBatchSize,
   since |-> "now",
   include_docs |-> FALSE,
   timeout |-> DefaultTimeout,
   heartbeat |-> DefaultHeartbeat,
   started |-> FALSE,
   stopOnEmptyChanges |-> FALSE,
   continue |-> TRUE]

\* stop() applied to the instance s
stop(s) == [s EXCEPT !.continue = FALSE]

\* the options start() takes over
startOpts(s, opts) ==
  LET s1 == IF Has(opts, "batchSize") /\ opts.batchSize # 0
            THEN [s EXCEPT !.batchSize = opts.batchSize] ELSE s
      s2 == IF Has(opts, "since") /\ Truthy(opts.since)
            THEN [s1 EXCEPT !.since = opts.since] ELSE s1
  IN s2

\* the query string of the request the loop body builds
req(s) ==
  [feed |-> "longpoll",
   timeout |-> s.timeout,
   since |-> s.since,
   limit |-> s.batchSize,
   heartbeat |-> s.heartbeat,
   seq_interval |-> s.batchSize,
   include_docs |-> s.include_docs]

\* mutant: start() without the `started` guard
startAlways(s, opts) ==
  LET s1 == startOpts([s EXCEPT !.started = TRUE], opts)
  IN [s |-> s1, out |-> <<req(s1)>>, ret |-> s1.ee]

\* mutant: start() refuses a batchSize or maxChanges that is not a number
startValidating(s, opts) ==
  IF s.started
  THEN [s |-> s, out |-> <<>>, ret |-> s.ee]
  ELSE IF \E k \in DOMAIN opts \cap {"batchSize", "maxChanges"} : opts[k] < 0
  THEN [s |-> s, out |-> <<>>, ret |-> s.ee]
  ELSE LET s1 == startOpts([s EXCEPT !.started = TRUE], opts)
       IN [s |-> s1, out |-> <<req(s1)>>, ret |-> s1.ee]

\* start(opts) applied to the instance s: the instance afterwards (s), the
\* requests it hands to the transport (out) and the emitter it returns (ret)
start(s, opts) ==
  IF s.started
  THEN [s |-> s, out |-> <<>>, ret |-> s.ee]
  ELSE LET s1 == startOpts([s EXCEPT !.started = TRUE], opts)
       IN [s |-> s1, out |-> <<req(s1)>>, ret |-> s1.ee]

\* get(opts) applied to the instance s
get(s, opts) == start([s EXCEPT !.stopOnEmptyChanges = TRUE], opts)

\* what a subscriber's re-entrant call does to the instance
applyCall(s, call) ==
  CASE call = "stop" -> stop(s)
    [] call = "get" -> get(s, <<>>).s
    [] call = "start" -> start(s, <<>>).s
    [] OTHER -> s

\* the instance after the subscribers of `kind` have been notified
notify(s, h, kind) == IF h.on = kind THEN applyCall(s, h.call) ELSE s

\* mutant: the records are published last to first
changeEventsReversed(s, results) ==
  [i \in 1..Len(results) |->
     [kind |-> "change", change |-> results[Len(results) + 1 - i], ee |-> s.ee]]

\* emit('change', results[i]) for every i, in index order
changeEvents(s, results) ==
  [i \in 1..Len(results) |-> [kind |-> "change", change |-> results[i], ee |-> s.ee]]

\* emit('batch', results)
batchEvent(s, results) == [kind |-> "batch", batch |-> results, ee |-> s.ee]

\* `data.results && data.results.length > 0`
hasResults(d) == Has(d, "results") /\ Len(d.results) > 0

\* mutant: the batch is published before its changes
resultEventsBatchFirst(s, d) ==
  IF hasResults(d)
  THEN <<batchEvent(s, d.results)>> \o changeEvents(s, d.results)
  ELSE <<>>

\* the events of the "we have some results" block
resultEvents(s, d) ==
  IF hasResults(d)
  THEN changeEvents(s, d.results) \o <<batchEvent(s, d.results)>>
  ELSE <<>>

\* mutant: the position is looked at only when there are results
newSeqOnlyWithResults(s, d) ==
  hasResults(d) /\ Has(d, "last_seq") /\ Truthy(d.last_seq) /\ d.last_seq # s.since

\* mutant: every last_seq counts as a new position
newSeqAlways(s, d) == Has(d, "last_seq") /\ Truthy(d.last_seq)

\* `data.last_seq && data.last_seq !== self.since`
newSeq(s, d) == Has(d, "last_seq") /\ Truthy(d.last_seq) /\ d.last_seq # s.since

\* mutant: only an empty batch ends the bounded mode
shouldEndOnlyEmpty(s, d) ==
  s.stopOnEmptyChanges /\ Has(d, "results") /\ Len(d.results) = 0

\* mutant: a batch as long as the limit ends the bounded mode too
shouldEndAtLimit(s, d) ==
  s.stopOnEmptyChanges /\ Has(d, "results") /\ Len(d.results) <= s.batchSize

\* "stop on empty batch or small batch"
shouldEnd(s, d) ==
  s.stopOnEmptyChanges /\ Has(d, "results") /\ Len(d.results) < s.batchSize

\* "if the error is fatal"
isFatal(r) ==
  /\ Has(r, "err")
  /\ Has(r.err, "statusCode")
  /\ r.err.statusCode # 0
  /\ r.err.statusCode >= 400
  /\ r.err.statusCode # 429
  /\ r.err.statusCode < 500

\* err.reason is truthy
hasReason(r) == Has(r, "err") /\ Has(r.err, "reason") /\ Truthy(r.err.reason)

\* mutant: the error event loses the failure
errorEventNoPayload(s, r) == [kind |-> "error", ee |-> s.ee]

\* the payload of emit('error', err)
errorEvent(s, r) ==
  IF Has(r, "err")
  THEN [kind |-> "error", err |-> r.err, ee |-> s.ee]
  ELSE [kind |-> "error", ee |-> s.ee]

\* mutant: the loop test ignores the flag
testAlways(s) == TRUE

\* the loop test of doWhilst
test(s) == s.continue

\* next(e): "final" runs the final callback, "again" the loop body
next(s, e) ==
  IF e THEN "final"
  ELSE IF test(s) THEN "again" ELSE "final"

\* mutant: next() is called before the events are emitted
inOrderNextFirst(ev, out) == <<out>> \o [i \in 1..Len(ev) |-> ev[i].kind]

\* the order of the callback's statements: every emit(), then next() (or the
\* throw or return that leaves the callback without it)
inOrder(ev, out) == [i \in 1..Len(ev) |-> ev[i].kind] \o <<out>>

\* the success branch of the request callback
onData(s, d, h) ==
  LET ev1 == resultEvents(s, d)
      s1 == IF hasResults(d) THEN notify(notify(s, h, "change"), h, "batch") ELSE s
      upd == newSeq(s1, d)
      s2 == IF upd THEN [s1 EXCEPT !.since = d.last_seq] ELSE s1
      ev2 == IF upd THEN <<[kind |-> "seq", seq |-> s2.since, ee |-> s2.ee]>> ELSE <<>>
      s3 == IF upd THEN notify(s2, h, "seq") ELSE s2
      end == shouldEnd(s3, d)
      ev3 == IF end THEN <<[kind |-> "end", ee |-> s3.ee]>> ELSE <<>>
      s4 == IF end THEN [notify(s3, h, "end") EXCEPT !.continue = FALSE] ELSE s3
      out == next(s4, FALSE)
  IN [s |-> s4, ev |-> ev1 \o ev2 \o ev3, out |-> out,
      ord |-> inOrder(ev1 \o ev2 \o ev3, out)]

\* the error branch of the request callback; emit('error') throws when the
\* emitter has no 'error' listener (events.EventEmitter)
onError(s, r, h, l) ==
  LET ev == <<errorEvent(s, r)>>
      s1 == notify(s, h, "error")
      s2 == [s1 EXCEPT !.continue = FALSE]
  IN IF ~l
     THEN [s |-> s, ev |-> ev, out |-> "thrown", ord |-> inOrder(ev, "thrown")]
     ELSE IF isFatal(r)
     THEN [s |-> s2, ev |-> ev, out |-> next(s2, hasReason(r)),
           ord |-> inOrder(ev, next(s2, hasReason(r)))]
     ELSE [s |-> s1, ev |-> ev, out |-> next(s1, FALSE),
           ord |-> inOrder(ev, next(s1, FALSE))]

\* the request callback function(err, data)
callback(s, r, h, l) ==
  IF Has(r, "data") THEN onData(s, r.data, h) ELSE onError(s, r, h, l)

\* mutant: the reset keeps the position of the run that ended
finalKeepsSince(s) == [setDefaults(s.ee + 1) EXCEPT !.since = s.since]

\* the final callback of doWhilst: setDefaults() makes a new emitter
final(s) == setDefaults(s.ee + 1)

----------------------------------------------------------------------------
(* src/lib/changesreader.js *)

\* setDefaults(): `e` identifies the new EventEmitter
setDefaultsLib(e) ==
  [ee |-> e,
   batchSize |-> DefaultBatchSize,
   since |-> "now",
   include_docs |-> FALSE,
   timeout |-> DefaultTimeout,
   heartbeat |-> DefaultHeartbeat,
   started |-> FALSE,
   maxChanges |-> 0,
   numChanges |-> 0]

\* the options start() takes over
startOptsLib(s, opts) ==
  LET s1 == IF Has(opts, "batchSize") /\ opts.batchSize # 0
            THEN [s EXCEPT !.batchSize = opts.batchSize] ELSE s
      s2 == IF Has(opts, "since") /\ Truthy(opts.since)
            THEN [s1 EXCEPT !.since = opts.since] ELSE s1
      s3 == IF Has(opts, "include_docs") /\ opts.include_docs
            THEN [s2 EXCEPT !.include_docs = opts.include_docs] ELSE s2
      s4 == IF Has(opts, "maxChanges") /\ opts.maxChanges # 0
            THEN [s3 EXCEPT !.maxChanges = opts.maxChanges] ELSE s3
  IN s4

Min(a, b) == IF a < b THEN a ELSE b

\* mutant: the limit ignores what has been delivered
limitLibWholeCeiling(s) ==
  IF s.maxChanges # 0
  THEN Min(s.batchSize, s.maxChanges)
  ELSE s.batchSize

\* "calculate this batchsize"
limitLib(s) ==
  IF s.maxChanges # 0
  THEN Min(s.batchSize, s.maxChanges - s.numChanges)
  ELSE s.batchSize

\* mutant: seq_interval follows the clamped limit
reqLibSeqIntervalClamped(s) ==
  [feed |-> "longpoll",
   timeout |-> s.timeout,
   since |-> s.since,
   limit |-> limitLib(s),
   heartbeat |-> s.heartbeat,
   seq_interval |-> limitLib(s),
   include_docs |-> s.include_docs]

\* the query string of the request the loop body builds
reqLib(s) ==
  [feed |-> "longpoll",
   timeout |-> s.timeout,
   since |-> s.since,
   limit |-> limitLib(s),
   heartbeat |-> s.heartbeat,
   seq_interval |-> s.batchSize,
   include_docs |-> s.include_docs]

\* mutant: start() without the `started` guard
startLibAlways(s, opts) ==
  LET s1 == startOptsLib([s EXCEPT !.started = TRUE], opts)
  IN [s |-> s1, out |-> <<reqLib(s1)>>, ret |-> s1.ee]

\* start(opts) applied to the instance s
startLib(s, opts) ==
  IF s.started
  THEN [s |-> s, out |-> <<>>, ret |-> s.ee]
  ELSE LET s1 == startOptsLib([s EXCEPT !.started = TRUE], opts)
       IN [s |-> s1, out |-> <<reqLib(s1)>>, ret |-> s1.ee]

\* a subscriber's re-entrant call; the class has start() only
notifyLib(s, h, kind) ==
  IF h.on = kind /\ h.call = "start" THEN startLib(s, <<>>).s ELSE s

\* the condition under which the error branch calls next(err.reason)
isFatalLib(r) ==
  /\ Has(r.err, "statusCode")
  /\ r.err.statusCode # 0
  /\ r.err.statusCode >= 400
  /\ r.err.statusCode # 429

\* the loop test of doWhilst
testLib(s) == s.maxChanges = 0 \/ s.numChanges < s.maxChanges

\* next(e)
nextLib(s, e) ==
  IF e THEN "final"
  ELSE IF testLib(s) THEN "again" ELSE "final"

\* the success branch of the request callback
onDataLib(s, d, h) ==
  LET ev1 == resultEvents(s, d)
      s0 == IF hasResults(d)
            THEN notifyLib(notifyLib(s, h, "change"), h, "batch") ELSE s
      s1 == IF hasResults(d)
            THEN [s0 EXCEPT !.numChanges = @ + Len(d.results)] ELSE s0
      upd == newSeq(s1, d)
      s2 == IF upd THEN [s1 EXCEPT !.since = d.last_seq] ELSE s1
      ev2 == IF upd THEN <<[kind |-> "seq", seq |-> s2.since, ee |-> s2.ee]>> ELSE <<>>
      s3 == IF upd THEN notifyLib(s2, h, "seq") ELSE s2
      out == nextLib(s3, FALSE)
  IN [s |-> s3, ev |-> ev1 \o ev2, out |-> out, ord |-> inOrder(ev1 \o ev2, out)]

\* the error branch of the request callback.  emit('error') throws when the
\* emitter has no 'error' listener; `err.statusCode` throws a TypeError when
\* err is null; a failure that is not fatal returns without calling next()
onErrorLib(s, r, h, l) ==
  LET ev == <<errorEvent(s, r)>>
      s1 == notifyLib(s, h, "error")
  IN IF ~l
     THEN [s |-> s, ev |-> ev, out |-> "thrown", ord |-> inOrder(ev, "thrown")]
     ELSE IF ~Has(r, "err")
     THEN [s |-> s1, ev |-> ev, out |-> "thrown", ord |-> inOrder(ev, "thrown")]
     ELSE IF isFatalLib(r)
     THEN [s |-> s1, ev |-> ev, out |-> nextLib(s1, hasReason(r)),
           ord |-> inOrder(ev, nextLib(s1, hasReason(r)))]
     ELSE [s |-> s1, ev |-> ev, out |-> "returned", ord |-> inOrder(ev, "returned")]

\* the request callback function(err, data)
callbackLib(s, r, h, l) ==
  IF Has(r, "data") THEN onDataLib(s, r.data, h) ELSE onErrorLib(s, r, h, l)

\* the final callback of doWhilst
finalLib(s) == setDefaultsLib(s.ee + 1)

----------------------------------------------------------------------------
(* The state machine *)

IsLib == Has(self, "maxChanges")

NoResp == [none |-> FALSE]

\* the event kinds the callback of (err, data) can publish
KindsOf(r) ==
  IF Has(r, "data")
  THEN (IF Has(r.data, "results") /\ r.data.results # <<>>
        THEN {"change", "batch"} ELSE {})
         \cup (IF Has(r.data, "last_seq") THEN {"seq"} ELSE {})
         \cup (IF Has(r.data, "results") THEN {"end"} ELSE {})
  ELSE {"error"}

\* the subscribers that can be notified during the callback of (err, data)
Hooks(r) == {h \in AllHooks : h = NoHook \/ h.on \in KindsOf(r)}

Op(name, running) == [op |-> name, running |-> running]

\* the number of events of kind k in the sequence ev
Count(ev, k) == Cardinality({i \in 1..Len(ev) : ev[i].kind = k})

\* the sequence q without its i-th element
Remove(q, i) == SubSeq(q, 1, i - 1) \o SubSeq(q, i + 1, Len(q))

Init ==
  /\ self \in {setDefaults(0), setDefaultsLib(0)}
  /\ inflight = <<>>
  /\ events = <<>>
  /\ lastOp = Op("new", FALSE)
  /\ lastOpts = <<>>
  /\ stopped = "no"
  /\ lastResp = NoResp
  /\ lastHook = NoHook
  /\ ret = -1
  /\ listening = FALSE
  /\ thrown = FALSE
  /\ delivered = 0
  /\ begun = "none"
  /\ ord = <<>>

\* what every call of start()/get() does with its outcome c; the caller
\* subscribes to the emitter it gets back (l: also to 'error')
Called(op, opts, c, l) ==
  /\ self' = c.s
  /\ inflight' = inflight \o c.out
  /\ ret' = c.ret
  /\ listening' = IF c.out # <<>> THEN l ELSE listening
  /\ lastOp' = Op(op, self.started)
  /\ lastOpts' = opts
  /\ events' = <<>>
  /\ thrown' = FALSE
  /\ UNCHANGED stopped
  /\ lastResp' = NoResp
  /\ lastHook' = NoHook
  /\ delivered' = IF c.out # <<>> THEN 0 ELSE delivered
  /\ begun' = IF c.out # <<>> THEN op ELSE begun
  /\ ord' = <<>>

\* cr.start(opts)
Start(opts, l) ==
  /\ ~IsLib
  /\ self.started \/ self.ee < MaxEmitters
  /\ Called("start", opts, start(self, opts), l)

\* cr.get(opts)
Get(opts, l) ==
  /\ ~IsLib
  /\ self.started \/ self.ee < MaxEmitters
  /\ Called("get", opts, get(self, opts), l)

\* cr.stop(); the class of src/lib/changesreader.js has no stop()
Stop ==
  /\ ~IsLib
  /\ self' = stop(self)
  /\ lastOp' = Op("stop", self.started)
  /\ lastOpts' = <<>>
  /\ stopped' = IF self.started THEN "running" ELSE "idle"
  /\ events' = <<>>
  /\ thrown' = FALSE
  /\ lastResp' = NoResp
  /\ lastHook' = NoHook
  /\ ord' = <<>>
  /\ UNCHANGED <<inflight, ret, listening, delivered, begun>>

\* what the completion of the i-th exchange in flight does, c being the
\* outcome of its callback, nxt the request of the next iteration and fin
\* the instance after the final callback; a subscriber acts only when it is
\* notified
Completed(i, r, h, c, nxt, fin) ==
  /\ h = NoHook \/ \E k \in 1..Len(c.ev) : c.ev[k].kind = h.on
  /\ self' = IF c.out = "final" THEN fin ELSE c.s
  /\ inflight' = Remove(inflight, i) \o (IF c.out = "again" THEN <<nxt>> ELSE <<>>)
  /\ events' = c.ev
  /\ lastOp' = Op("callback", self.started)
  /\ lastOpts' = <<>>
  /\ stopped' = IF c.out = "final" THEN "no"
                ELSE IF h.call = "stop" THEN "running" ELSE stopped
  /\ lastResp' = r
  /\ lastHook' = h
  /\ listening' = (listening /\ c.out # "final")
  /\ thrown' = (c.out = "thrown")
  /\ delivered' = IF c.out = "final" \/ ~IsLib THEN 0
                  ELSE delivered + Count(c.ev, "change")
  /\ begun' = IF c.out = "final" THEN "none" ELSE begun
  /\ ord' = c.ord
  /\ UNCHANGED ret

\* the transport completes an exchange and runs its callback
RequestCallback(i, r, h) ==
  /\ ~IsLib
  /\ i \in 1..Len(inflight)
  /\ \E c \in {callback(self, r, h, listening)} :
       Completed(i, r, h, c, req(c.s), final(c.s))

\* cr.start(opts), src/lib/changesreader.js
StartLib(opts, l) ==
  /\ IsLib
  /\ self.started \/ self.ee < MaxEmitters
  /\ Called("start", opts, startLib(self, opts), l)

\* the transport completes an exchange, src/lib/changesreader.js
RequestCallbackLib(i, r, h) ==
  /\ IsLib
  /\ i \in 1..Len(inflight)
  /\ h.call \in {"none", "start"}
  /\ h.on # "end"
  /\ Has(r, "data") /\ Has(r.data, "results")
       => self.numChanges + Len(r.data.results) <= MaxNumChanges
  /\ \E c \in {callbackLib(self, r, h, listening)} :
       Completed(i, r, h, c, reqLib(c.s), finalLib(c.s))

\* the opts a caller passes
OptsOf(all) == IF self.started THEN all \cap RunningOptsSet ELSE all

\* callers of the documented usage subscribe to 'error'
Next ==
  \/ \E opts \in OptsOf(StartOptsSet) : Start(opts, TRUE)
  \/ \E opts \in OptsOf(GetOptsSet) : Get(opts, TRUE)
  \/ Stop
  \/ \E i \in 1..Len(inflight), r \in Responses :
       \E h \in Hooks(r) : RequestCallback(i, r, h)
  \/ \E opts \in OptsOf(StartOptsSet) : StartLib(opts, TRUE)
  \/ \E i \in 1..Len(inflight), r \in Responses :
       \E h \in Hooks(r) : RequestCallbackLib(i, r, h)

Spec == Init /\ [][Next]_vars

----------------------------------------------------------------------------
(* Vocabulary of the properties *)

\* the step is the callback of an exchange
CallbackStep == lastOp'.op = "callback"

\* (err, data) is a failure with status 429 or 500 and above
TransientStatus(r) ==
  /\ Has(r, "err")
  /\ Has(r.err, "statusCode")
  /\ (r.err.statusCode = 429 \/ r.err.statusCode >= 500)

\* (err, data) is a failure with a status in 400..499 other than 429
FatalStatus(r) ==
  /\ Has(r, "err")
  /\ Has(r.err, "statusCode")
  /\ r.err.statusCode \in 400..499
  /\ r.err.statusCode # 429

\* stop() has been requested of the instance
StopRequested == Has(self, "continue") /\ ~self.continue

\* every session field of s is at its default
IsDefault(s) ==
  /\ ~s.started
  /\ s.batchSize = 100
  /\ s.since = "now"
  /\ ~s.include_docs
  /\ s.timeout = 60000
  /\ s.heartbeat = 5000
  /\ Has(s, "continue") => s.continue /\ ~s.stopOnEmptyChanges
  /\ Has(s, "maxChanges") => s.maxChanges = 0 /\ s.numChanges = 0

----------------------------------------------------------------------------
(* Properties *)

\* C1: after a failed exchange whose status code is 429 or at least 500,
\* and unless stop() has been requested, the loop issues a next request whose
\* `since` is the `since` of the failed request; it neither halts nor stalls.
C1_TransientFailureRetries ==
  [][(/\ CallbackStep
      /\ TransientStatus(lastResp')
      /\ ~StopRequested
      /\ lastHook'.call # "stop"
      /\ Len(inflight) = 1)
     => (/\ Len(inflight') = 1
         /\ inflight'[1].since = inflight[1].since
         /\ self'.started)]_vars

\* C2: after a failed exchange whose status code is in 400..499 and is not
\* 429, with or without a reason, the `error` event is emitted, no further
\* request is issued and the session is reset.
C2_FatalFailureHalts ==
  [][(CallbackStep /\ FatalStatus(lastResp'))
     => (/\ Count(events', "error") = 1
         /\ inflight' = <<>>
         /\ IsDefault(self'))]_vars

\* C3: a successful exchange with a non-empty result list of length k
\* publishes exactly k `change` events, the i-th carrying the i-th record,
\* followed by exactly one `batch` event carrying the whole list in order;
\* a successful exchange with an empty result list publishes neither.
C3_ChangesThenBatch ==
  (lastOp.op = "callback" /\ Has(lastResp, "data") /\ Has(lastResp.data, "results"))
    => LET results == lastResp.data.results
           k == Len(results)
       IN IF k > 0
          THEN /\ Len(events) >= k + 1
               /\ \A i \in 1..k :
                    events[i].kind = "change" /\ events[i].change = results[i]
               /\ events[k + 1].kind = "batch"
               /\ events[k + 1].batch = results
               /\ Count(events, "change") = k
               /\ Count(events, "batch") = 1
          ELSE Count(events, "change") = 0 /\ Count(events, "batch") = 0

\* C3 witness: a response with two different records, second before first
C3_Witness ==
  /\ lastOp.op = "callback"
  /\ Has(lastResp, "data")
  /\ Has(lastResp.data, "results")
  /\ lastResp.data.results = <<"b", "a">>
  /\ Count(events, "change") = 2
  /\ Count(events, "batch") = 1

\* C4: a successful exchange whose last_seq differs from the `since` of its
\* request, also with an empty result list, publishes exactly one `seq`
\* event carrying the new value, and the next request, if the loop issues
\* one, carries that value as `since`.
C4_SeqEventAndNextSince ==
  [][(/\ CallbackStep
      /\ Len(inflight) = 1
      /\ Has(lastResp', "data")
      /\ Has(lastResp'.data, "last_seq")
      /\ lastResp'.data.last_seq # inflight[1].since)
     => (/\ Count(events', "seq") = 1
         /\ \A i \in 1..Len(events') :
              events'[i].kind = "seq" => events'[i].seq = lastResp'.data.last_seq
         /\ inflight' # <<>> => inflight'[1].since = lastResp'.data.last_seq)]_vars

\* C4 witness: an empty result list moved the position and the loop went on
C4_Witness ==
  /\ lastOp.op = "callback"
  /\ Has(lastResp, "data")
  /\ Has(lastResp.data, "last_seq")
  /\ Has(lastResp.data, "results")
  /\ lastResp.data.results = <<>>
  /\ lastResp.data.last_seq = "2-0"
  /\ events = <<[kind |-> "seq", seq |-> "2-0", ee |-> self.ee]>>
  /\ Len(inflight) = 1
  /\ inflight[1].since = "2-0"

\* the place of an event kind in the order of one iteration
Rank(kind) ==
  CASE kind = "change" -> 1
    [] kind = "batch" -> 2
    [] kind = "seq" -> 3
    [] kind = "end" -> 4
    [] OTHER -> 0

\* C5: the events of one exchange are published in the order: every
\* `change`, then `batch`, then `seq`, then `end`; no `change` follows the
\* `batch` or the `seq` of its exchange.
C5_EventOrder ==
  lastOp.op = "callback"
    => \A i, j \in 1..Len(events) :
         i < j => /\ Rank(events[i].kind) <= Rank(events[j].kind)
                  /\ events[j].kind # "change"
                       => Rank(events[i].kind) < Rank(events[j].kind)

\* C5 witness: one exchange published all four kinds
C5_Witness ==
  /\ lastOp.op = "callback"
  /\ Len(events) = 5
  /\ events[1].kind = "change"
  /\ events[2].kind = "change"
  /\ events[3].kind = "batch"
  /\ events[4].kind = "seq"
  /\ events[5].kind = "end"

\* the instance is in bounded mode
Bounded == Has(self, "stopOnEmptyChanges") /\ self.stopOnEmptyChanges

\* C6: in bounded mode (a session begun with get()) a successful response
\* whose result list is shorter than the limit requested publishes exactly
\* one `end` event and no further request is issued; `end` is published at
\* most once per run: a callback publishes at most one, and the run is over
\* after it.
C6_BoundedModeEnds ==
  [][CallbackStep
     => /\ (/\ Len(inflight) = 1
            /\ Bounded
            /\ Has(lastResp', "data")
            /\ Has(lastResp'.data, "results")
            /\ Len(lastResp'.data.results) < inflight[1].limit)
           => (/\ Count(events', "end") = 1
               /\ inflight' = <<>>
               /\ ~self'.started)
        /\ Count(events', "end") <= 1
        /\ Count(events', "end") = 1 => (inflight' = <<>> /\ ~self'.started)]_vars

\* C6 witness: a get() session ended on a short, non-empty batch
C6_Witness ==
  /\ lastOp.op = "callback"
  /\ lastHook = NoHook
  /\ Has(lastResp, "data")
  /\ Has(lastResp.data, "results")
  /\ Len(lastResp.data.results) = 1
  /\ Len(events) >= 1
  /\ events[Len(events)].kind = "end"
  /\ inflight = <<>>
  /\ ~self.started

\* every event the exchange of request q with outcome r calls for is in ev
PublishedInFull(q, r, bounded, ev) ==
  IF Has(r, "data")
  THEN LET d == r.data
           k == IF Has(d, "results") THEN Len(d.results) ELSE 0
       IN /\ Count(ev, "change") = k
          /\ Count(ev, "batch") = (IF k > 0 THEN 1 ELSE 0)
          /\ Count(ev, "seq") =
               (IF Has(d, "last_seq") /\ d.last_seq # q.since THEN 1 ELSE 0)
          /\ (bounded /\ Has(d, "results") /\ k < q.limit) => Count(ev, "end") = 1
  ELSE Count(ev, "error") = 1

\* C7: stop() called while the loop is running, with an exchange in flight
\* or by a subscriber during the dispatch of an iteration's events, leaves
\* the exchange in flight; its callback publishes all of its events, issues
\* no further request, and the session is reset to defaults.
C7_StopIsGraceful ==
  [][/\ (lastOp'.op = "stop" /\ self.started)
          => (inflight' = inflight /\ self'.started)
     /\ (/\ CallbackStep
         /\ Len(inflight) = 1
         /\ (stopped = "running" \/ lastHook'.call = "stop"))
        => (/\ PublishedInFull(inflight[1], lastResp', Bounded, events')
            /\ inflight' = <<>>
            /\ IsDefault(self'))]_vars

\* C7 witness: a subscriber of `change` called stop(); batch and seq were
\* still published and the loop halted
C7_Witness ==
  /\ lastOp.op = "callback"
  /\ lastHook = [on |-> "change", call |-> "stop"]
  /\ Count(events, "change") = 2
  /\ Count(events, "batch") = 1
  /\ Count(events, "seq") = 1
  /\ inflight = <<>>
  /\ ~self.started

\* C8: stop() on an instance that is not running is a no-op: the loop of a
\* start() called afterwards keeps polling after every exchange that is not
\* a fatal failure nor a bounded-mode end, until a later stop().
C8_IdleStopIsNoOp ==
  [][(/\ CallbackStep
      /\ Len(inflight) = 1
      /\ stopped = "idle"
      /\ lastHook'.call # "stop"
      /\ ~FatalStatus(lastResp')
      /\ Count(events', "end") = 0)
     => (Len(inflight') = 1 /\ self'.started)]_vars

\* C9: start() called while the loop is running returns the emitter of the
\* first call and changes nothing: no session field, no request.
C9_StartWhileRunning ==
  [][(lastOp'.op = "start" /\ self.started)
     => (/\ self' = self
         /\ inflight' = inflight
         /\ ret' = ret
         /\ ret' = self.ee)]_vars

\* C9 witness: start({batchSize: 1, since: '1-0'}) on a running default loop
C9_Witness ==
  /\ lastOp = Op("start", TRUE)
  /\ Has(lastOpts, "batchSize")
  /\ Has(lastOpts, "since")
  /\ lastOpts.since = "1-0"
  /\ self.started
  /\ self.batchSize = 100
  /\ self.since = "now"
  /\ Len(inflight) = 1
  /\ inflight[1].limit = 100
  /\ inflight[1].since = "now"
  /\ ret = self.ee

\* C10: at most one HTTP exchange of the instance is in flight.
C10_OneExchangeInFlight == Len(inflight) <= 1

\* C10 witness: get() was called while an exchange was in flight
C10_Witness ==
  /\ lastOp = Op("get", TRUE)
  /\ Len(inflight) = 1
  /\ self.started

\* the instance has a ceiling on the changes of its run (a maxChanges that
\* is a number above 0)
HasCeiling == IsLib /\ self.maxChanges > 0

\* the response r carries at most n records
AtMost(r, n) ==
  (Has(r, "data") /\ Has(r.data, "results")) => Len(r.data.results) <= n

\* C11: while maxChanges is set, the request in flight has limit =
\* min(batchSize, maxChanges - changes delivered so far in the run); and a
\* response that carries at most `limit` records leaves the number of
\* `change` events published in the run at or below maxChanges.
C11_LimitAndCeiling ==
  /\ [](HasCeiling /\ Len(inflight) = 1
         => inflight[1].limit = Min(self.batchSize, self.maxChanges - delivered))
  /\ [][(CallbackStep /\ HasCeiling /\ Len(inflight) = 1
          /\ AtMost(lastResp', inflight[1].limit))
         => delivered + Count(events', "change") <= self.maxChanges]_vars

\* C11 witness: two of three changes delivered, the next request asks for
\* the one that is left although batchSize is 100
C11_Witness ==
  /\ HasCeiling
  /\ self.maxChanges = 3
  /\ self.batchSize = 100
  /\ delivered = 2
  /\ Len(inflight) = 1
  /\ inflight[1].limit = 1
  /\ lastOp.op = "callback"

\* C12: in the rendition that has maxChanges, after the callback of an
\* exchange: with maxChanges set, a next request is in flight exactly when
\* no halt was requested (no fatal failure) and the changes delivered in the
\* run are fewer than maxChanges, and once they reach maxChanges nothing is
\* in flight and the session is reset; with maxChanges not set, a next
\* request is in flight after every successful exchange, however many
\* changes were delivered.
C12_CeilingEndsLoop ==
  [][(CallbackStep /\ IsLib /\ Len(inflight) = 1)
     => LET halt == FatalStatus(lastResp')
            total == delivered + Count(events', "change")
        IN IF HasCeiling
           THEN /\ (Len(inflight') = 1) <=> (~halt /\ total < self.maxChanges)
                /\ total >= self.maxChanges
                     => (inflight' = <<>> /\ IsDefault(self'))
           ELSE (self.maxChanges = 0 /\ Has(lastResp', "data"))
                  => Len(inflight') = 1]_vars

\* C13: whenever the loop exits (the callback of an exchange leaves the
\* instance not started), every session field is at its default, nothing is
\* in flight and the delivered count is 0; a start() without options that
\* follows issues a first request with since = 'now' and limit = 100,
\* with no stop pending and bounded mode off; and the successful exchanges
\* of that run are followed by a next request and publish no `end`.
C13_ExitResets ==
  /\ [][(CallbackStep /\ self.started /\ ~self'.started)
         => (/\ IsDefault(self')
             /\ inflight' = <<>>
             /\ delivered' = 0)]_vars
  /\ [][(/\ lastOp.op = "callback"
          /\ ~self.started
          /\ lastOp'.op = "start"
          /\ lastOpts' = <<>>)
         => (/\ self'.started
             /\ Len(inflight') = 1
             /\ inflight'[1].since = "now"
             /\ inflight'[1].limit = 100
             /\ inflight'[1].seq_interval = 100
             /\ ~inflight'[1].include_docs
             /\ Has(self', "continue")
                  => (self'.continue /\ ~self'.stopOnEmptyChanges))]_vars
  /\ [][(/\ CallbackStep
          /\ lastOp = Op("start", FALSE)
          /\ lastOpts = <<>>
          /\ stopped = "no"
          /\ self.ee > 0
          /\ Has(lastResp', "data")
          /\ lastHook' = NoHook)
         => (/\ Len(inflight') = 1
             /\ Count(events', "end") = 0)]_vars

\* C13 witness: a run ended, and a start() without options began the next
C13_Witness ==
  /\ lastOp = Op("start", FALSE)
  /\ lastOpts = <<>>
  /\ stopped = "no"
  /\ self.ee > 0
  /\ self.started
  /\ Len(inflight) = 1
  /\ inflight[1].since = "now"
  /\ inflight[1].limit = 100

\* C14: the request of the next iteration is issued only after every event
\* of the exchange has been published: in the callback's order of doing
\* things no event follows the step that issues the next request, that step
\* is the one that puts the request in flight, the callback handles the only
\* exchange in flight, and events are published by callbacks only (so the
\* events of two iterations never interleave).
C14_EventsBeforeNextRequest ==
  /\ [](\A i, j \in 1..Len(ord) :
          (i < j /\ ord[i] = "again") => ord[j] \notin EventKinds)
  /\ [][events' # <<>> => CallbackStep]_vars
  /\ [][CallbackStep
         => (/\ Len(inflight) = 1
             /\ Len(ord') = Len(events') + 1
             /\ \A i \in 1..Len(events') : ord'[i] = events'[i].kind
             /\ (Len(inflight') = 1) <=> (ord'[Len(ord')] = "again"))]_vars

\* C14 witness: a callback published change, batch and seq and then issued
\* the next request
C14_Witness ==
  /\ lastOp.op = "callback"
  /\ ord = <<"change", "batch", "seq", "again">>
  /\ Len(inflight) = 1
  /\ inflight[1].since = events[3].seq

\* (err, data) is a failure that carries no status code: an err without
\* statusCode (network failure, malformed body) or neither err nor data
NoStatusFailure(r) ==
  \/ Has(r, "none") /\ r.none
  \/ Has(r, "err") /\ ~Has(r.err, "statusCode")

\* C15: the callback of a failed exchange that carries no status code
\* publishes one `error` event and, unless stop() has been requested, leaves
\* a next request in flight whose `since` is that of the failed request.
C15_NoStatusIsTransient ==
  [][(CallbackStep /\ NoStatusFailure(lastResp') /\ Len(inflight) = 1)
     => (/\ Count(events', "error") = 1
         /\ (~StopRequested /\ lastHook'.call # "stop")
              => (/\ ~thrown'
                  /\ self'.started
                  /\ Len(inflight') = 1
                  /\ inflight'[1].since = inflight[1].since))]_vars

C17_NoEndOnStartSession ==
  [][(CallbackStep /\ begun = "start" /\ Len(inflight) = 1)
     => (/\ Count(events', "end") = 0
         /\ (/\ Has(lastResp', "data")
              /\ IsLib => self.maxChanges = 0
              /\ ~StopRequested
              /\ lastHook'.call # "stop")
              => Len(inflight') = 1)]_vars

\* the step is start(opts) called on an idle instance
IdleStartStep == lastOp'.op = "start" /\ ~self.started

\* C18: start(opts) on an idle instance, opts being any combination of
\* batchSize, since (not zero, which is C19) and include_docs, puts one
\* request in flight that carries the passed value of every option given
\* (limit and seq_interval = batchSize, since, include_docs), the default
\* (100, 'now', false) of every option omitted, timeout = 60000 and
\* heartbeat = 5000.
C18_FirstRequestCarriesOptions ==
  [][(/\ IdleStartStep
      /\ DOMAIN lastOpts' \subseteq {"batchSize", "since", "include_docs"}
      /\ Has(lastOpts', "since") => lastOpts'.since # NumZero)
     => LET o == lastOpts'
            b == IF Has(o, "batchSize") THEN o.batchSize ELSE 100
        IN /\ Len(inflight') = 1
           /\ inflight'[1].feed = "longpoll"
           /\ inflight'[1].limit = b
           /\ inflight'[1].seq_interval = b
           /\ inflight'[1].since = (IF Has(o, "since") THEN o.since ELSE "now")
           /\ inflight'[1].include_docs
                = (IF Has(o, "include_docs") THEN o.include_docs ELSE FALSE)
           /\ inflight'[1].timeout = 60000
           /\ inflight'[1].heartbeat = 5000]_vars

\* C19: start(opts) on an idle instance with since = 0 (the number) puts a
\* first request in flight whose since is 0, not 'now'.
C19_SinceZero ==
  [][(/\ IdleStartStep
      /\ Has(lastOpts', "since")
      /\ lastOpts'.since = NumZero)
     => (/\ Len(inflight') = 1
         /\ inflight'[1].since = NumZero)]_vars

C21_SeqIntervalIsBatchSize ==
  /\ [](Len(inflight) = 1 => inflight[1].seq_interval = self.batchSize)
  /\ [][(lastOp'.op \in {"start", "get"} /\ ~self.started)
         => (/\ Len(inflight') = 1
             /\ inflight'[1].seq_interval
                  = (IF Has(lastOpts', "batchSize")
                     THEN lastOpts'.batchSize ELSE 100))]_vars
  /\ [][(CallbackStep /\ Len(inflight) = 1 /\ Len(inflight') = 1)
         => inflight'[1].seq_interval = inflight[1].seq_interval]_vars

\* C21 witness: a request whose limit maxChanges clamped to 1, batchSize 100
C21_Witness ==
  /\ HasCeiling
  /\ lastOp.op = "callback"
  /\ Len(inflight) = 1
  /\ inflight[1].limit = 1
  /\ inflight[1].seq_interval = 100

\* C22: a callback publishes an `error` event only when the exchange failed
\* with a status in 400..499 other than 429, and after a callback that
\* published an `error` event no request is in flight.
C22_ErrorOnlyWhenFatal ==
  [][(CallbackStep /\ Count(events', "error") > 0)
     => (FatalStatus(lastResp') /\ inflight' = <<>>)]_vars

----------------------------------------------------------------------------
(* Draining the feed with get(): the hypotheses of a run that catches up.   *)
(* src/unnamed/part_000 is the rendition that has get().  Every failure is  *)
(* transient, nobody calls stop() on the running instance, every exchange   *)
(* completes, and the server runs out of changes: sooner or later it        *)
(* answers with fewer records than the request's limit.                     *)

\* (err, data) of an exchange that does not fail fatally
LiveResponses == {r \in Responses : ~isFatal(r)}

\* subscribers that do not call stop()
LiveHooks(r) == {h \in Hooks(r) : h.call # "stop"}

\* (err, data) is a success with fewer records than the request q asked for
ShortOf(q) ==
  {r \in Responses :
     Has(r, "data") /\ Has(r.data, "results") /\ Len(r.data.results) < q.limit}

InitLive == Init /\ ~IsLib

\* cr.stop() on the idle instance
StopIdle == ~self.started /\ Stop

\* the transport completes an exchange without a fatal failure
LiveCallback ==
  \E i \in 1..Len(inflight), r \in LiveResponses :
    \E h \in LiveHooks(r) : RequestCallback(i, r, h)

\* the server has no more changes than it returns
ShortBatchCallback ==
  /\ Len(inflight) = 1
  /\ \E r \in ShortOf(inflight[1]) : RequestCallback(1, r, NoHook)

NextLive ==
  \/ \E opts \in OptsOf(GetOptsSet) : Get(opts, TRUE)
  \/ \E opts \in OptsOf(GetOptsSet) : Start(opts, TRUE)
  \/ StopIdle
  \/ LiveCallback

SpecLive ==
  /\ InitLive
  /\ [][NextLive]_vars
  /\ WF_vars(LiveCallback)
  /\ WF_vars(ShortBatchCallback)

\* the most recent callback published `end`, left nothing in flight and
\* reset the session
EndedAndReset ==
  /\ lastOp.op = "callback"
  /\ Count(events, "end") = 1
  /\ inflight = <<>>
  /\ IsDefault(self)

\* C23: in a run begun with get(), under the hypotheses of SpecLive, the
\* loop eventually publishes `end`, leaves no request in flight and resets.
C23_GetEventuallyEnds == (begun = "get") ~> EndedAndReset

\* (err, data) is a success that carries exactly n records
FullBatch(r, n) ==
  Has(r, "data") /\ Has(r.data, "results") /\ Len(r.data.results) = n

\* C24: in bounded mode the callback of a successful exchange whose result
\* list is as long as the limit requested publishes no `end` and, unless
\* stop() has been requested, leaves the loop running with a next request in
\* flight, whose `since` is the response's last_seq when it carries one and
\* the `since` of the request before otherwise.
C24_FullBatchGoesOn ==
  [][(/\ CallbackStep
      /\ Bounded
      /\ Len(inflight) = 1
      /\ FullBatch(lastResp', inflight[1].limit))
     => (/\ Count(events', "end") = 0
         /\ (~StopRequested /\ lastHook'.call # "stop")
              => (/\ self'.started
                  /\ Bounded'
                  /\ Len(inflight') = 1
                  /\ inflight'[1].since
                       = (IF Has(lastResp'.data, "last_seq")
                          THEN lastResp'.data.last_seq
                          ELSE inflight[1].since)))]_vars

\* C24 witness: bounded mode, one record requested, one record returned,
\* the next request asks from the new position
C24_Witness ==
  /\ Bounded
  /\ lastOp.op = "callback"
  /\ FullBatch(lastResp, 1)
  /\ Has(lastResp.data, "last_seq")
  /\ Count(events, "end") = 0
  /\ Len(inflight) = 1
  /\ inflight[1].limit = 1
  /\ inflight[1].since = lastResp.data.last_seq

\* (err, data) is a success whose last_seq is absent or is the position p
NoNewSeq(r, p) ==
  Has(r, "data") /\ (Has(r.data, "last_seq") => r.data.last_seq = p)

\* C25: the callback of a successful exchange whose last_seq is absent or
\* equal to the current position publishes no `seq` event and, unless the run
\* ends (reset), leaves the position as it was, a next request carrying the
\* `since` of the request before; and while the loop runs the position
\* changes only in the callback of a successful exchange with a different
\* last_seq, to that last_seq, or by the reset, to 'now'.
C25_PositionFrame ==
  /\ [][(CallbackStep /\ Len(inflight) = 1 /\ NoNewSeq(lastResp', self.since))
         => (/\ Count(events', "seq") = 0
             /\ self'.ee = self.ee => self'.since = self.since
             /\ Len(inflight') = 1
                  => inflight'[1].since = inflight[1].since)]_vars
  /\ [][(self.started /\ self'.since # self.since)
         => (/\ CallbackStep
             /\ \/ /\ self'.ee # self.ee
                    /\ self'.since = "now"
                 \/ /\ self'.ee = self.ee
                    /\ Has(lastResp', "data")
                    /\ Has(lastResp'.data, "last_seq")
                    /\ lastResp'.data.last_seq # self.since
                    /\ self'.since = lastResp'.data.last_seq)]_vars

\* C25 witness: a response repeats the position '1-0' and the next request
\* asks from '1-0' again
C25_Witness ==
  /\ lastOp.op = "callback"
  /\ Has(lastResp, "data")
  /\ Has(lastResp.data, "last_seq")
  /\ lastResp.data.last_seq = "1-0"
  /\ self.since = "1-0"
  /\ Count(events, "seq") = 0
  /\ Len(inflight) = 1
  /\ inflight[1].since = "1-0"

----------------------------------------------------------------------------
(* Callers that may or may not subscribe to 'error': emit('error') on an    *)
(* emitter without an 'error' listener throws (events.EventEmitter).        *)

\* the options are the documented ones; l: the caller subscribes to 'error'
NextSubscribers ==
  \/ \E opts \in OptsOf(GetOptsSet), l \in BOOLEAN : Start(opts, l)
  \/ \E opts \in OptsOf(GetOptsSet), l \in BOOLEAN : Get(opts, l)
  \/ Stop
  \/ \E i \in 1..Len(inflight), r \in Responses :
       \E h \in Hooks(r) : RequestCallback(i, r, h)
  \/ \E opts \in OptsOf(GetOptsSet), l \in BOOLEAN : StartLib(opts, l)
  \/ \E i \in 1..Len(inflight), r \in Responses :
       \E h \in Hooks(r) : RequestCallbackLib(i, r, h)

SpecSubscribers == Init /\ [][NextSubscribers]_vars

\* C26: whoever is subscribed, also when nobody is subscribed to `error`,
\* an instance marked as running has an exchange in flight: after every
\* completed exchange the loop either issued the next request or halted and
\* reset.
C26_RunningMeansInFlight == self.started => Len(inflight) = 1

====
